---- MODULE Spec2Model ----
(***************************************************************************)
(* TrainStream backend: course creation with course_ref allocation         *)
(* (app/api/courses.py) and the partial-update handlers of templates,      *)
(* participants and users (app/api/course_templates.py, participants.py,   *)
(* users.py), over the SQLite tables they read and write.                  *)
(*                                                                         *)
(* Text values are sequences of one-character strings; SQL NULL / Python   *)
(* None of a text column is the one-element sequence None.  An optional    *)
(* number or boolean is <<>> (NULL / None) or <<v>>.                       *)
(***************************************************************************)
EXTENDS Integers, Sequences, FiniteSets, TLC

\* The tables of trainstream.db (a table is the sequence of its rows, the id
\* of a row its position), the requests in flight, the request that finished
\* last, and the number of requests handled so far.
VARIABLES templates, courses, participants, users, venues, reqs, last, opCount

vars == <<templates, courses, participants, users, venues, reqs, last, opCount>>

-----------------------------------------------------------------------------
(* Values                                                                  *)

None == <<"None">>

NoneN == <<>>

N(v) == <<v>>

\* Python truthiness of an Optional[str]: None and "" are falsy.
Truthy(s) == s # None /\ s # <<>>

\* Python truthiness of an Optional[int]: None and 0 are falsy.
TruthyN(n) == n # NoneN /\ n # N(0)

\* Python `a or b` on text values.
Or(a, b) == IF Truthy(a) THEN a ELSE b

\* Python `a or b` on optional numbers.
OrN(a, b) == IF TruthyN(a) THEN a ELSE b

\* Python `a if a is not None else b`, on text and on optional numbers.
IfNotNone(a, b) == IF a # None THEN a ELSE b

IfNotNoneN(a, b) == IF a # NoneN THEN a ELSE b

Max(S) == CHOOSE m \in S : \A k \in S : k <= m

Range(s) == {s[i] : i \in 1..Len(s)}

-----------------------------------------------------------------------------
(* Text: the str operations the handlers use                               *)

DigitChars == <<"0", "1", "2", "3", "4", "5", "6", "7", "8", "9">>

DigitSet == Range(DigitChars)

LowerChars == <<"a", "b", "c", "d", "e", "f", "l", "q", "r", "s", "u">>

UpperChars == <<"A", "B", "C", "D", "E", "F", "L", "Q", "R", "S", "U">>

LetterSet == Range(LowerChars) \cup Range(UpperChars) \cup {"X", "J", "m"}

DigitValue(c) == (CHOOSE i \in 1..10 : DigitChars[i] = c) - 1

\* str.isalnum() of one character.
isalnum(c) == c \in LetterSet \cup DigitSet

\* str.upper() of one character.
upperChar(c) ==
    IF c \in Range(LowerChars)
    THEN UpperChars[CHOOSE i \in 1..Len(LowerChars) : LowerChars[i] = c]
    ELSE IF c = "m" THEN "M" ELSE c

upper(s) == [i \in 1..Len(s) |-> upperChar(s[i])]

RECURSIVE lstrip(_)
lstrip(s) == IF s # <<>> /\ Head(s) = " " THEN lstrip(Tail(s)) ELSE s

RECURSIVE rstrip(_)
rstrip(s) ==
    IF s # <<>> /\ s[Len(s)] = " " THEN rstrip(SubSeq(s, 1, Len(s) - 1)) ELSE s

\* str.strip()
strip(s) == rstrip(lstrip(s))

\* str.split("-"): the list of segments between dashes.
RECURSIVE split(_)
split(s) ==
    IF \A i \in 1..Len(s) : s[i] # "-"
    THEN <<s>>
    ELSE LET k == CHOOSE i \in 1..Len(s) :
                      s[i] = "-" /\ \A j \in 1..(i - 1) : s[j] # "-"
         IN  <<SubSeq(s, 1, k - 1)>> \o split(SubSeq(s, k + 1, Len(s)))

\* `pat in s`
contains(s, pat) ==
    \E i \in 1..(Len(s) - Len(pat) + 1) : SubSeq(s, i, i + Len(pat) - 1) = pat

\* Decimal rendering of a natural number, str(n).
RECURSIVE decimal(_)
decimal(n) ==
    IF n < 10 THEN <<DigitChars[n + 1]>>
    ELSE decimal(n \div 10) \o <<DigitChars[(n % 10) + 1]>>

RECURSIVE zfill(_, _)
zfill(s, w) == IF Len(s) < w THEN zfill(<<"0">> \o s, w) ELSE s

format03d_Wrap(n) == zfill(decimal(n % 1000), 3)

\* format(n, "03d"): sign, then digits zero-padded to a total width of 3.
format03d(n) ==
    IF n < 0 THEN <<"-">> \o zfill(decimal(0 - n), 2) ELSE zfill(decimal(n), 3)

\* format(n, "02d") and "%Y" of a year in 1000..9999.
format02d(n) == zfill(decimal(n), 2)

RECURSIVE digitsValue(_)
digitsValue(ds) ==
    IF ds = <<>> THEN 0
    ELSE 10 * digitsValue(SubSeq(ds, 1, Len(ds) - 1)) + DigitValue(ds[Len(ds)])

\* int(s): surrounding whitespace stripped, an optional sign, decimal digits
\* with single underscores allowed between digits; anything else raises
\* ValueError.
int(s) ==
    LET t == strip(s)
        signed == t # <<>> /\ t[1] \in {"+", "-"}
        u == IF signed THEN Tail(t) ELSE t
        wellFormed ==
            /\ u # <<>>
            /\ \A i \in 1..Len(u) : u[i] \in DigitSet \cup {"_"}
            /\ u[1] # "_" /\ u[Len(u)] # "_"
            /\ \A i \in 1..(Len(u) - 1) : ~(u[i] = "_" /\ u[i + 1] = "_")
        ds == SelectSeq(u, LAMBDA c : c \in DigitSet)
        v == digitsValue(ds)
    IN  IF wellFormed
        THEN [raised |-> FALSE, value |-> IF signed /\ t[1] = "-" THEN 0 - v ELSE v]
        ELSE [raised |-> TRUE, value |-> 0]

-----------------------------------------------------------------------------
(* courses.py: the reference code allocator                                *)

\* date.strftime("%Y") of a date whose year has four digits.
strftime_Y(d) == decimal(d.y)

\* date.strftime("%Y-%m-%d")
strftime_Ymd(d) ==
    decimal(d.y) \o <<"-">> \o format02d(d.m) \o <<"-">> \o format02d(d.d)

_get_template_shortname_KeepDash(template_name) ==
    upper(SelectSeq(template_name, LAMBDA ch : isalnum(ch) \/ ch = "-"))

_get_template_shortname(template_name) ==
    upper(SelectSeq(template_name, isalnum))

SelectCourseRefs_NoTrailingDash(rows, template_id, year) ==
    LET pat == <<"-">> \o year
        hit(r) == /\ r.template_id = template_id
                  /\ r.course_ref # None
                  /\ contains(r.course_ref, pat)
        kept == SelectSeq(rows, hit)
    IN  [i \in 1..Len(kept) |-> kept[i].course_ref]

SelectCourseRefs_AnyTemplate(rows, template_id, year) ==
    LET pat == <<"-">> \o year \o <<"-">>
        hit(r) == /\ r.course_ref # None
                  /\ contains(r.course_ref, pat)
        kept == SelectSeq(rows, hit)
    IN  [i \in 1..Len(kept) |-> kept[i].course_ref]

\* SELECT course_ref FROM courses WHERE template_id = ? AND course_ref LIKE
\* '%-<year>-%': the refs, in row order.  NULL LIKE ... is not true.
SelectCourseRefs(rows, template_id, year) ==
    LET pat == <<"-">> \o year \o <<"-">>
        hit(r) == /\ r.template_id = template_id
                  /\ r.course_ref # None
                  /\ contains(r.course_ref, pat)
        kept == SelectSeq(rows, hit)
    IN  [i \in 1..Len(kept) |-> kept[i].course_ref]

\* One iteration of the loop over the fetched refs, with the exception of
\* int() swallowed: acc = [numbers, raised].
ScanRef_NoCatch(acc, course_ref) ==
    IF acc.raised THEN acc
    ELSE IF ~Truthy(course_ref) THEN acc
    ELSE LET parts == split(course_ref)
         IN  IF Len(parts) < 3 THEN acc
             ELSE LET r == int(parts[Len(parts)])
                  IN  IF r.raised
                      THEN [acc EXCEPT !.raised = TRUE]
                      ELSE [acc EXCEPT !.numbers = Append(@, r.value)]

ScanRef(acc, course_ref) ==
    IF acc.raised THEN acc
    ELSE IF ~Truthy(course_ref) THEN acc
    ELSE LET parts == split(course_ref)
         IN  IF Len(parts) < 3 THEN acc
             ELSE LET r == int(parts[Len(parts)])
                  IN  IF r.raised
                      THEN acc
                      ELSE [acc EXCEPT !.numbers = Append(@, r.value)]

RECURSIVE ScanRefs(_, _)
ScanRefs(refs, acc) ==
    IF refs = <<>> THEN acc ELSE ScanRefs(Tail(refs), ScanRef(acc, Head(refs)))

_get_next_cohort_number_NoIncrement(rows, template_id, year) ==
    LET acc == ScanRefs(SelectCourseRefs(rows, template_id, year),
                        [numbers |-> <<>>, raised |-> FALSE])
    IN  [raised |-> acc.raised,
         value  |-> IF acc.numbers # <<>> THEN Max(Range(acc.numbers)) ELSE 1]

_get_next_cohort_number(rows, template_id, year) ==
    LET acc == ScanRefs(SelectCourseRefs(rows, template_id, year),
                        [numbers |-> <<>>, raised |-> FALSE])
    IN  [raised |-> acc.raised,
         value  |-> IF acc.numbers # <<>> THEN Max(Range(acc.numbers)) + 1 ELSE 1]

-----------------------------------------------------------------------------
(* courses.py: create_course                                               *)

DefaultCapacity == 12

Planned == <<"P", "l", "a", "n", "n", "e", "d">>

\* SELECT id, name, course_title, default_capacity FROM course_templates
\* WHERE id = ?: whether a row comes back.
TemplateFound(tmpls, template_id) == template_id \in 1..Len(tmpls)

\* Steps 1 to 3 of create_course: the values of the INSERT, from the template
\* row, the payload and the cohort number.
CourseRow_CapacityIsNotNone(tmpl, payload, next_cohort) ==
    LET template_name == tmpl.name
        course_title == Or(tmpl.course_title, template_name)
        default_capacity == IfNotNoneN(tmpl.default_capacity, N(DefaultCapacity))
        year_str == strftime_Y(payload.course_date)
        shortname == _get_template_shortname(template_name)
        course_ref == shortname \o <<"-">> \o year_str \o <<"-">>
                        \o format03d(next_cohort)
        capacity == IF TruthyN(payload.capacity) /\ payload.capacity[1] > 0
                    THEN payload.capacity ELSE default_capacity
        status == Or(payload.status, Planned)
    IN  [course_ref   |-> course_ref,
         course_date  |-> strftime_Ymd(payload.course_date),
         template_id  |-> payload.template_id,
         course_title |-> course_title,
         trainer      |-> payload.trainer,
         venue_id     |-> payload.venue_id,
         capacity     |-> capacity,
         status       |-> status]

CourseRow_DefaultTitle(tmpl, payload, next_cohort) ==
    LET template_name == tmpl.name
        course_title == Or(Or(tmpl.course_title, tmpl.default_title), template_name)
        default_capacity == OrN(tmpl.default_capacity, N(DefaultCapacity))
        year_str == strftime_Y(payload.course_date)
        shortname == _get_template_shortname(template_name)
        course_ref == shortname \o <<"-">> \o year_str \o <<"-">>
                        \o format03d(next_cohort)
        capacity == IF TruthyN(payload.capacity) /\ payload.capacity[1] > 0
                    THEN payload.capacity ELSE default_capacity
        status == Or(payload.status, Planned)
    IN  [course_ref   |-> course_ref,
         course_date  |-> strftime_Ymd(payload.course_date),
         template_id  |-> payload.template_id,
         course_title |-> course_title,
         trainer      |-> payload.trainer,
         venue_id     |-> payload.venue_id,
         capacity     |-> capacity,
         status       |-> status]

CourseRow(tmpl, payload, next_cohort) ==
    LET template_name == tmpl.name
        course_title == Or(tmpl.course_title, template_name)
        default_capacity == OrN(tmpl.default_capacity, N(DefaultCapacity))
        year_str == strftime_Y(payload.course_date)
        shortname == _get_template_shortname(template_name)
        course_ref == shortname \o <<"-">> \o year_str \o <<"-">>
                        \o format03d(next_cohort)
        capacity == IF TruthyN(payload.capacity) /\ payload.capacity[1] > 0
                    THEN payload.capacity ELSE default_capacity
        status == Or(payload.status, Planned)
    IN  [course_ref   |-> course_ref,
         course_date  |-> strftime_Ymd(payload.course_date),
         template_id  |-> payload.template_id,
         course_title |-> course_title,
         trainer      |-> payload.trainer,
         venue_id     |-> payload.venue_id,
         capacity     |-> capacity,
         status       |-> status]

\* COALESCE(x, '')
Coalesce(x, dflt) == IF x = None THEN dflt ELSE x

\* The SELECT ... FROM courses c LEFT JOIN venues v ... WHERE c.id = ? of
\* get_course and create_course, and _row_to_course on its row.
_row_to_course(crs, vens, course_id) ==
    LET c == crs[course_id]
        joined == c.venue_id # NoneN /\ c.venue_id[1] \in 1..Len(vens)
    IN  [id           |-> course_id,
         title        |-> c.course_title,
         code         |-> c.course_ref,
         start_date   |-> c.course_date,
         end_date     |-> c.course_date,
         trainer_name |-> Coalesce(c.trainer, <<>>),
         venue_name   |-> IF joined THEN Coalesce(vens[c.venue_id[1]].name, <<>>)
                          ELSE <<>>,
         status       |-> Coalesce(c.status, Planned)]

NoRow == [absent |-> TRUE]

NoResponse == [absent |-> TRUE]

-----------------------------------------------------------------------------
(* course_templates.py                                                     *)

row_to_template_CapacityFallback(template_id, row) ==
    [id               |-> template_id,
     name             |-> row.name,
     course_type      |-> row.course_type,
     course_title     |-> Or(row.course_title, row.default_title),
     provider_type    |-> row.provider_type,
     default_capacity |-> OrN(row.default_capacity, N(DefaultCapacity)),
     validity_months  |-> row.validity_months,
     cpd_hours        |-> row.cpd_hours,
     default_trainer  |-> row.default_trainer,
     default_venue_id |-> row.default_venue_id]

row_to_template(template_id, row) ==
    [id               |-> template_id,
     name             |-> row.name,
     course_type      |-> row.course_type,
     \* prefer course_title; fall back to default_title if used
     course_title     |-> Or(row.course_title, row.default_title),
     provider_type    |-> row.provider_type,
     default_capacity |-> row.default_capacity,
     validity_months  |-> row.validity_months,
     cpd_hours        |-> row.cpd_hours,
     default_trainer  |-> row.default_trainer,
     default_venue_id |-> row.default_venue_id]

\* The row an INSERT or UPDATE of course_templates writes for a
\* CourseTemplateBase: default_title mirrors course_title.
TemplateRow(new) ==
    [name             |-> new.name,
     course_type      |-> new.course_type,
     default_title    |-> new.course_title,
     default_venue_id |-> new.default_venue_id,
     default_trainer  |-> new.default_trainer,
     default_capacity |-> new.default_capacity,
     course_title     |-> new.course_title,
     provider_type    |-> new.provider_type,
     validity_months  |-> new.validity_months,
     cpd_hours        |-> new.cpd_hours]

TemplateMerge_CapacityOr(current, updates) ==
    [name             |-> Or(updates.name, current.name),
     course_type      |-> Or(updates.course_type, current.course_type),
     course_title     |-> Or(updates.course_title, current.course_title),
     provider_type    |-> Or(updates.provider_type, current.provider_type),
     default_capacity |-> OrN(updates.default_capacity, current.default_capacity),
     validity_months  |-> IfNotNoneN(updates.validity_months, current.validity_months),
     cpd_hours        |-> IfNotNoneN(updates.cpd_hours, current.cpd_hours),
     default_trainer  |-> IfNotNone(updates.default_trainer, current.default_trainer),
     default_venue_id |-> IfNotNoneN(updates.default_venue_id, current.default_venue_id)]

\* new = CourseTemplateBase(...) of update_course_template.
TemplateMerge(current, updates) ==
    [name             |-> Or(updates.name, current.name),
     course_type      |-> Or(updates.course_type, current.course_type),
     course_title     |-> Or(updates.course_title, current.course_title),
     provider_type    |-> Or(updates.provider_type, current.provider_type),
     default_capacity |-> IfNotNoneN(updates.default_capacity, current.default_capacity),
     validity_months  |-> IfNotNoneN(updates.validity_months, current.validity_months),
     cpd_hours        |-> IfNotNoneN(updates.cpd_hours, current.cpd_hours),
     default_trainer  |-> IfNotNone(updates.default_trainer, current.default_trainer),
     default_venue_id |-> IfNotNoneN(updates.default_venue_id, current.default_venue_id)]

-----------------------------------------------------------------------------
(* participants.py                                                         *)

row_to_participant(participant_id, row) ==
    [id             |-> participant_id,
     course_id      |-> row.course_id,
     first_name     |-> row.first_name,
     surname        |-> row.surname,
     contact_number |-> row.contact_number,
     email          |-> row.email,
     payment_status |-> row.payment_status,
     notes          |-> row.notes,
     joining_sent   |-> TruthyN(row.joining_sent)]

ParticipantFound_AnyId(parts, participant_id) ==
    participant_id \in 1..Len(parts)

\* SELECT * FROM participants WHERE id = ?: whether a row comes back.
ParticipantFound(parts, participant_id) ==
    participant_id \in 1..Len(parts) /\ parts[participant_id].present

\* The INSERT of create_participant.
ParticipantRow(course_id, payload) ==
    [present        |-> TRUE,
     course_id      |-> course_id,
     first_name     |-> payload.first_name,
     surname        |-> payload.surname,
     contact_number |-> payload.contact_number,
     email          |-> payload.email,
     payment_status |-> payload.payment_status,
     joining_sent   |-> IF payload.joining_sent THEN N(1) ELSE N(0),
     notes          |-> payload.notes]

ParticipantMerge_Truthy(current, payload) ==
    [current EXCEPT
       !.first_name     = Or(payload.first_name, current.first_name),
       !.surname        = Or(payload.surname, current.surname),
       !.contact_number = Or(payload.contact_number, current.contact_number),
       !.email          = Or(payload.email, current.email),
       !.payment_status = Or(payload.payment_status, current.payment_status),
       !.joining_sent   = IF payload.joining_sent = N(TRUE) THEN N(1)
                          ELSE IF payload.joining_sent # NoneN THEN N(0)
                          ELSE current.joining_sent,
       !.notes          = Or(payload.notes, current.notes)]

ParticipantMerge_FalseAbsent(current, payload) ==
    [current EXCEPT
       !.first_name     = IfNotNone(payload.first_name, current.first_name),
       !.surname        = IfNotNone(payload.surname, current.surname),
       !.contact_number = IfNotNone(payload.contact_number, current.contact_number),
       !.email          = IfNotNone(payload.email, current.email),
       !.payment_status = IfNotNone(payload.payment_status, current.payment_status),
       !.joining_sent   = IF payload.joining_sent = N(TRUE) THEN N(1)
                          ELSE current.joining_sent,
       !.notes          = IfNotNone(payload.notes, current.notes)]

\* `updated` of update_participant, written over the current row.  The
\* joining_sent expression parses as  1 if p else (0 if p is not None else cur).
ParticipantMerge(current, payload) ==
    [current EXCEPT
       !.first_name     = IfNotNone(payload.first_name, current.first_name),
       !.surname        = IfNotNone(payload.surname, current.surname),
       !.contact_number = IfNotNone(payload.contact_number, current.contact_number),
       !.email          = IfNotNone(payload.email, current.email),
       !.payment_status = IfNotNone(payload.payment_status, current.payment_status),
       !.joining_sent   = IF payload.joining_sent = N(TRUE) THEN N(1)
                          ELSE IF payload.joining_sent # NoneN THEN N(0)
                          ELSE current.joining_sent,
       !.notes          = IfNotNone(payload.notes, current.notes)]

-----------------------------------------------------------------------------
(* users.py                                                                *)

\* hash_password: salt.hex() + ":" + digest.hex(), the salt drawn at random.
hash_password(password, salt) == <<"#", salt, ":">> \o password

row_to_user(user_id, row) ==
    [id                   |-> user_id,
     first_name           |-> row.first_name,
     surname              |-> row.surname,
     full_name            |-> row.full_name,
     role                 |-> row.role,
     email                |-> row.email,
     must_change_password |-> TruthyN(row.must_change_password)]

UserFound(usrs, user_id) == user_id \in 1..Len(usrs)

\* f"{first_name} {surname}".strip()
JoinName(first_name, surname) == strip(first_name \o <<" ">> \o surname)

\* The INSERT of create_user.
UserRow(user, salt) ==
    [first_name           |-> user.first_name,
     surname              |-> user.surname,
     full_name            |-> JoinName(user.first_name, user.surname),
     email                |-> Or(user.email, <<>>),
     role                 |-> user.role,
     password_hash        |-> hash_password(user.password, salt),
     must_change_password |-> N(1)]

UserMerge_NamesWin(row, updates, salt) ==
    LET current_must_change == TruthyN(row.must_change_password)
        new_first_name == Or(updates.first_name, row.first_name)
        new_surname == Or(updates.surname, row.surname)
        new_full_name ==
            IF Truthy(updates.first_name) \/ Truthy(updates.surname)
            THEN JoinName(new_first_name, new_surname)
            ELSE IF Truthy(updates.full_name) THEN updates.full_name
                 ELSE row.full_name
        new_must_change ==
            IF updates.must_change_password # NoneN
            THEN updates.must_change_password[1] ELSE current_must_change
    IN  [first_name           |-> new_first_name,
         surname              |-> new_surname,
         full_name            |-> new_full_name,
         email                |-> IfNotNone(updates.email, row.email),
         role                 |-> Or(updates.role, row.role),
         must_change_password |-> IF new_must_change THEN N(1) ELSE N(0),
         password_hash        |-> IF Truthy(updates.password)
                                  THEN hash_password(updates.password, salt)
                                  ELSE row.password_hash]

UserMerge_AlwaysRehash(row, updates, salt) ==
    LET current_must_change == TruthyN(row.must_change_password)
        new_first_name == Or(updates.first_name, row.first_name)
        new_surname == Or(updates.surname, row.surname)
        new_full_name ==
            IF Truthy(updates.full_name) THEN updates.full_name
            ELSE IF Truthy(updates.first_name) \/ Truthy(updates.surname)
                 THEN JoinName(new_first_name, new_surname)
                 ELSE row.full_name
        new_must_change ==
            IF updates.must_change_password # NoneN
            THEN updates.must_change_password[1] ELSE current_must_change
    IN  [first_name           |-> new_first_name,
         surname              |-> new_surname,
         full_name            |-> new_full_name,
         email                |-> IfNotNone(updates.email, row.email),
         role                 |-> Or(updates.role, row.role),
         must_change_password |-> IF new_must_change THEN N(1) ELSE N(0),
         password_hash        |-> hash_password(Or(updates.password, <<>>), salt)]

\* The values of the UPDATE of update_user.
UserMerge(row, updates, salt) ==
    LET current_must_change == TruthyN(row.must_change_password)
        new_first_name == Or(updates.first_name, row.first_name)
        new_surname == Or(updates.surname, row.surname)
        new_full_name ==
            IF Truthy(updates.full_name) THEN updates.full_name
            ELSE IF Truthy(updates.first_name) \/ Truthy(updates.surname)
                 THEN JoinName(new_first_name, new_surname)
                 ELSE row.full_name
        new_email == IfNotNone(updates.email, row.email)
        new_role == Or(updates.role, row.role)
        new_must_change ==
            IF updates.must_change_password # NoneN
            THEN updates.must_change_password[1] ELSE current_must_change
        new_password_hash ==
            IF Truthy(updates.password) THEN hash_password(updates.password, salt)
            ELSE row.password_hash
    IN  [first_name           |-> new_first_name,
         surname              |-> new_surname,
         full_name            |-> new_full_name,
         email                |-> new_email,
         role                 |-> new_role,
         must_change_password |-> IF new_must_change THEN N(1) ELSE N(0),
         password_hash        |-> new_password_hash]

-----------------------------------------------------------------------------
(* The handlers, each run from its first statement to its return with no   *)
(* other request in between.  last records the finished request: the row   *)
(* its first SELECT returned (before), its outcome and its response.       *)

Tables == <<templates, courses, participants, users, venues>>

Done(op, id, payload, status, before, response) ==
    [op |-> op, id |-> id, payload |-> payload, status |-> status,
     before |-> before, response |-> response]

\* POST /courses
create_course(payload) ==
    /\ IF ~TemplateFound(templates, payload.template_id)
       THEN /\ last' = Done("create_course", 0, payload, 404, NoRow, NoResponse)
            /\ UNCHANGED courses
       ELSE LET tmpl == templates[payload.template_id]
                next_cohort == _get_next_cohort_number(
                                   courses, payload.template_id,
                                   strftime_Y(payload.course_date))
                new_id == Len(courses) + 1
                inserted == Append(courses, CourseRow(tmpl, payload, next_cohort.value))
            IN  IF next_cohort.raised
                THEN /\ last' = Done("create_course", 0, payload, 500, tmpl, NoResponse)
                     /\ UNCHANGED courses
                ELSE /\ courses' = inserted
                     /\ last' = Done("create_course", new_id, payload, 200, tmpl,
                                     _row_to_course(inserted, venues, new_id))
    /\ UNCHANGED <<templates, participants, users, venues, reqs>>

\* POST /course-templates
create_course_template(body) ==
    LET template_id == Len(templates) + 1
        inserted == Append(templates, TemplateRow(body))
    IN  /\ templates' = inserted
        /\ last' = Done("create_course_template", template_id, body, 200, NoRow,
                        row_to_template(template_id, inserted[template_id]))
        /\ UNCHANGED <<courses, participants, users, venues, reqs>>

update_course_template_Cascade(template_id, updates) ==
    /\ IF ~TemplateFound(templates, template_id)
       THEN /\ last' = Done("update_course_template", template_id, updates, 404,
                            NoRow, NoResponse)
            /\ UNCHANGED <<templates, courses>>
       ELSE LET row == templates[template_id]
                current == row_to_template(template_id, row)
                new == TemplateMerge(current, updates)
                updated == [templates EXCEPT ![template_id] = TemplateRow(new)]
            IN  /\ templates' = updated
                /\ courses' = [i \in 1..Len(courses) |->
                                  IF courses[i].template_id = template_id
                                  THEN [courses[i] EXCEPT
                                          !.course_title = Or(new.course_title, new.name)]
                                  ELSE courses[i]]
                /\ last' = Done("update_course_template", template_id, updates, 200,
                                row, row_to_template(template_id, updated[template_id]))
    /\ UNCHANGED <<participants, users, venues, reqs>>

\* PUT /course-templates/{template_id}
update_course_template(template_id, updates) ==
    /\ IF ~TemplateFound(templates, template_id)
       THEN /\ last' = Done("update_course_template", template_id, updates, 404,
                            NoRow, NoResponse)
            /\ UNCHANGED templates
       ELSE LET row == templates[template_id]
                current == row_to_template(template_id, row)
                new == TemplateMerge(current, updates)
                updated == [templates EXCEPT ![template_id] = TemplateRow(new)]
            IN  /\ templates' = updated
                /\ last' = Done("update_course_template", template_id, updates, 200,
                                row, row_to_template(template_id, updated[template_id]))
    /\ UNCHANGED <<courses, participants, users, venues, reqs>>

\* POST /participants/by-course/{course_id}
create_participant(course_id, payload) ==
    LET new_id == Len(participants) + 1
        inserted == Append(participants, ParticipantRow(course_id, payload))
    IN  /\ participants' = inserted
        /\ last' = Done("create_participant", new_id, payload, 200, NoRow,
                        row_to_participant(new_id, inserted[new_id]))
        /\ UNCHANGED <<templates, courses, users, venues, reqs>>

\* PUT /participants/{participant_id}
update_participant(participant_id, payload) ==
    /\ IF ~ParticipantFound(participants, participant_id)
       THEN /\ last' = Done("update_participant", participant_id, payload, 404,
                            NoRow, NoResponse)
            /\ UNCHANGED participants
       ELSE LET current == participants[participant_id]
                updated == [participants EXCEPT
                              ![participant_id] = ParticipantMerge(current, payload)]
            IN  /\ participants' = updated
                /\ last' = Done("update_participant", participant_id, payload, 200,
                                current,
                                row_to_participant(participant_id,
                                                   updated[participant_id]))
    /\ UNCHANGED <<templates, courses, users, venues, reqs>>

\* A deleted row.  Ids are taken to be AUTOINCREMENT: a later INSERT gets a
\* fresh id.
Deleted == [present |-> FALSE, course_id |-> 0, first_name |-> None,
            surname |-> None, contact_number |-> None, email |-> None,
            payment_status |-> None, joining_sent |-> NoneN, notes |-> None]

\* DELETE /participants/{participant_id}
delete_participant(participant_id) ==
    /\ participants' = IF participant_id \in 1..Len(participants)
                       THEN [participants EXCEPT ![participant_id] = Deleted]
                       ELSE participants
    /\ last' = Done("delete_participant", participant_id, NoRow, 200, NoRow,
                    [ok |-> TRUE])
    /\ UNCHANGED <<templates, courses, users, venues, reqs>>

\* The duplicate check of create_user.
UserExists(usrs, full_name, email) ==
    \E i \in 1..Len(usrs) : usrs[i].full_name = full_name /\ usrs[i].email = email

\* POST /users
create_user(user, salt) ==
    LET row == UserRow(user, salt)
        user_id == Len(users) + 1
        inserted == Append(users, row)
    IN  /\ IF UserExists(users, row.full_name, row.email)
           THEN /\ last' = Done("create_user", 0, user, 400, NoRow, NoResponse)
                /\ UNCHANGED users
           ELSE /\ users' = inserted
                /\ last' = Done("create_user", user_id, user, 200, NoRow,
                                row_to_user(user_id, inserted[user_id]))
        /\ UNCHANGED <<templates, courses, participants, venues, reqs>>

\* PUT /users/{user_id}
update_user(user_id, updates, salt) ==
    /\ IF ~UserFound(users, user_id)
       THEN /\ last' = Done("update_user", user_id, updates, 404, NoRow, NoResponse)
            /\ UNCHANGED users
       ELSE LET row == users[user_id]
                updated == [users EXCEPT ![user_id] = UserMerge(row, updates, salt)]
            IN  /\ users' = updated
                /\ last' = Done("update_user", user_id, updates, 200, row,
                                row_to_user(user_id, updated[user_id]))
    /\ UNCHANGED <<templates, courses, participants, venues, reqs>>

-----------------------------------------------------------------------------
(* Stored rows and request bodies the runs draw from                       *)

MaxOps == 2

Jane == <<"J", "a", "n", "e">>

Doe == <<"D", "o", "e">>

Smith == <<"S", "m", "i", "t", "h">>

NewText == <<"q">>

\* A template as the API writes it, one the desktop application left behind
\* (course_title NULL, the title in default_title), and one whose optional
\* values were written as "" and 0.
TplA == TemplateRow(
    [name |-> <<"a", " ", "1">>, course_type |-> <<"e">>, course_title |-> <<"d">>,
     provider_type |-> <<"f">>, default_capacity |-> N(8), validity_months |-> N(3),
     cpd_hours |-> N(6), default_trainer |-> <<"r">>, default_venue_id |-> N(1)])

TplLegacy ==
    [name |-> <<"b">>, course_type |-> None, default_title |-> <<"s">>,
     default_venue_id |-> NoneN, default_trainer |-> None,
     default_capacity |-> NoneN, course_title |-> None, provider_type |-> None,
     validity_months |-> NoneN, cpd_hours |-> NoneN]

TplZero == TemplateRow(
    [name |-> <<"c">>, course_type |-> <<>>, course_title |-> <<>>,
     provider_type |-> <<>>, default_capacity |-> N(0), validity_months |-> N(0),
     cpd_hours |-> N(0), default_trainer |-> <<>>, default_venue_id |-> NoneN])

TemplateTables == {<<TplA>>, <<TplLegacy>>, <<TplZero>>}

PartA == ParticipantRow(1,
    [first_name |-> Jane, surname |-> Doe, contact_number |-> <<"0", "7">>,
     email |-> <<"e">>, payment_status |-> <<"f">>, notes |-> <<"d">>,
     joining_sent |-> TRUE])

PartB == ParticipantRow(1,
    [first_name |-> <<"b">>, surname |-> <<"c">>, contact_number |-> None,
     email |-> None, payment_status |-> None, notes |-> None,
     joining_sent |-> FALSE])

ParticipantTables == {<<PartA>>, <<Deleted, PartB>>}

UserJane ==
    [first_name |-> Jane, surname |-> Doe, full_name |-> Jane \o <<" ">> \o Doe,
     email |-> <<"e">>, role |-> <<"r">>, must_change_password |-> N(1),
     password_hash |-> hash_password(<<"a">>, "s")]

\* A user created with an empty surname and later given a display name.
UserMono ==
    [first_name |-> <<"b">>, surname |-> <<>>, full_name |-> <<"B", " ", "C">>,
     email |-> <<>>, role |-> <<"f">>, must_change_password |-> N(0),
     password_hash |-> hash_password(<<"a">>, "t")]

UserTables == {<<UserJane>>, <<UserMono>>}

Salts == {"s", "t"}

\* The salt is drawn only when a password is hashed.
SaltsFor(password) == IF Truthy(password) THEN Salts ELSE {"s"}

TemplateStrFields ==
    {"name", "course_type", "course_title", "provider_type", "default_trainer"}

TemplateNumFields ==
    {"default_capacity", "validity_months", "cpd_hours", "default_venue_id"}

\* CourseTemplateUpdate with every field at its default.
NoTemplateUpdates ==
    [name |-> None, course_type |-> None, course_title |-> None,
     provider_type |-> None, default_capacity |-> NoneN, validity_months |-> NoneN,
     cpd_hours |-> NoneN, default_trainer |-> None, default_venue_id |-> NoneN]

TemplateUpdates ==
    {NoTemplateUpdates}
    \cup {[NoTemplateUpdates EXCEPT ![f] = v] :
             f \in TemplateStrFields, v \in {<<>>, NewText}}
    \cup {[NoTemplateUpdates EXCEPT ![f] = v] :
             f \in TemplateNumFields, v \in {N(0), N(5)}}
    \cup {[NoTemplateUpdates EXCEPT !.name = <<>>, !.default_capacity = N(0)]}

TemplateBodies ==
    {[name |-> <<"c", "-", "2">>, course_type |-> None, course_title |-> ct,
      provider_type |-> None, default_capacity |-> dc, validity_months |-> NoneN,
      cpd_hours |-> NoneN, default_trainer |-> None, default_venue_id |-> NoneN] :
         ct \in {None, <<>>, NewText}, dc \in {NoneN, N(0)}}

Jan15 == [y |-> 2024, m |-> 1, d |-> 15]

CoursePayloads ==
    {[template_id |-> t, course_date |-> Jan15, venue_id |-> NoneN,
      trainer |-> <<>>, capacity |-> c, status |-> Planned] :
         t \in 1..2, c \in {N(0), N(0 - 1), N(7)}}
    \cup {[template_id |-> t, course_date |-> Jan15, venue_id |-> v,
           trainer |-> tr, capacity |-> NoneN, status |-> st] :
             t \in 1..2, v \in {NoneN, N(1)}, tr \in {<<>>, <<"r">>},
             st \in {<<>>, Planned}}

ParticipantStrFields ==
    {"first_name", "surname", "contact_number", "email", "payment_status", "notes"}

NoParticipantUpdates ==
    [first_name |-> None, surname |-> None, contact_number |-> None,
     email |-> None, payment_status |-> None, notes |-> None,
     joining_sent |-> NoneN]

ParticipantUpdates ==
    {NoParticipantUpdates}
    \cup {[NoParticipantUpdates EXCEPT ![f] = v] :
             f \in ParticipantStrFields, v \in {<<>>, NewText}}
    \cup {[NoParticipantUpdates EXCEPT !.joining_sent = v] : v \in {N(TRUE), N(FALSE)}}

ParticipantBodies ==
    {[first_name |-> Jane, surname |-> Smith, contact_number |-> None,
      email |-> e, payment_status |-> None, notes |-> None, joining_sent |-> j] :
         e \in {None, <<>>}, j \in BOOLEAN}

NoUserUpdates ==
    [first_name |-> None, surname |-> None, full_name |-> None, role |-> None,
     email |-> None, must_change_password |-> NoneN, password |-> None]

UserUpdates ==
    {[NoUserUpdates EXCEPT !.first_name = f, !.surname = s, !.full_name = n] :
         f \in {None, <<>>, <<"b">>}, s \in {None, <<>>, Smith},
         n \in {None, <<>>, NewText}}
    \cup {[NoUserUpdates EXCEPT ![f] = v] :
             f \in {"role", "email", "password"}, v \in {<<>>, NewText}}
    \cup {[NoUserUpdates EXCEPT !.must_change_password = v] :
             v \in {N(TRUE), N(FALSE)}}

UserBodies ==
    {[first_name |-> Jane, surname |-> s, role |-> <<"r">>, email |-> e,
      password |-> <<"a">>] : s \in {Doe, <<>>}, e \in {None, <<"e">>}}

TheVenues == <<[name |-> <<"V">>]>>

Idle == Done("none", 0, NoRow, 0, NoRow, NoResponse)

-----------------------------------------------------------------------------
(* Spec: up to MaxOps requests, one at a time, on stored data of every kind *)

\* The stored data a run starts from: each kind of row varied in turn.
StoredData ==
    {[templates |-> t, participants |-> <<PartA>>, users |-> <<UserJane>>] :
         t \in TemplateTables}
    \cup {[templates |-> <<TplA>>, participants |-> p, users |-> u] :
             p \in ParticipantTables, u \in UserTables}

Init ==
    /\ \E db \in StoredData :
           /\ templates = db.templates
           /\ participants = db.participants
           /\ users = db.users
    /\ courses = <<>>
    /\ venues = TheVenues
    /\ reqs = <<>>
    /\ last = Idle
    /\ opCount = 0

Next ==
    /\ opCount < MaxOps
    /\ opCount' = opCount + 1
    /\ \/ \E payload \in CoursePayloads : create_course(payload)
       \/ \E body \in TemplateBodies : create_course_template(body)
       \/ \E id \in 1..2, updates \in TemplateUpdates :
              update_course_template(id, updates)
       \/ \E payload \in ParticipantBodies : create_participant(1, payload)
       \/ \E id \in 1..2, payload \in ParticipantUpdates :
              update_participant(id, payload)
       \/ \E id \in 1..2 : delete_participant(id)
       \/ \E user \in UserBodies, salt \in Salts : create_user(user, salt)
       \/ \E id \in 1..2, updates \in UserUpdates :
              \E salt \in SaltsFor(updates.password) : update_user(id, updates, salt)

Spec == Init /\ [][Next]_vars

-----------------------------------------------------------------------------
(* Properties of single requests (Spec)                                    *)

Succeeded(op) == last.op = op /\ last.status = 200

\* C4 as stated: the stored capacity is the proposed one when present and
\* > 0, else the template's default_capacity whenever it is not absent
\* (whatever its value), else 12.
C4_AnyDefaultCapacity ==
    Succeeded("create_course") =>
        LET proposed == last.payload.capacity
            dflt == last.before.default_capacity
        IN  courses[last.id].capacity =
                IF proposed # NoneN /\ proposed[1] > 0 THEN proposed
                ELSE IF dflt # NoneN THEN dflt
                ELSE N(12)

\* C4, amended: the stored capacity is the proposed one when present and > 0,
\* else the template's default_capacity when it is neither absent nor 0,
\* else 12.
C4_Capacity ==
    Succeeded("create_course") =>
        LET proposed == last.payload.capacity
            dflt == last.before.default_capacity
        IN  courses[last.id].capacity =
                IF proposed # NoneN /\ proposed[1] > 0 THEN proposed
                ELSE IF dflt # NoneN /\ dflt # N(0) THEN dflt
                ELSE N(12)

C4_Witness ==
    /\ Succeeded("create_course")
    /\ last.payload.capacity = N(0)
    /\ last.before.default_capacity = N(8)
    /\ courses[last.id].capacity = N(8)

\* C5: on an existing template, name "" leaves the stored name unchanged and
\* default_capacity 0 stores 0.
C5_NameKeptCapacityZero ==
    Succeeded("update_course_template") =>
        /\ last.payload.name = <<>> =>
               templates[last.id].name = last.before.name
        /\ last.payload.default_capacity = N(0) =>
               templates[last.id].default_capacity = N(0)

C5_Witness ==
    /\ Succeeded("update_course_template")
    /\ last.payload.name = <<>>
    /\ last.payload.default_capacity = N(0)
    /\ last.before.default_capacity = N(8)
    /\ templates[last.id].default_capacity = N(0)
    /\ templates[last.id].name = <<"a", " ", "1">>

UserStrFields == {"first_name", "surname", "full_name", "role", "email"}

\* C6 as stated: in every update operation a proposed "" for any text field
\* leaves the value as it was (for course_title, the title the template
\* showed; for full_name, when no name part is supplied with it).
C6_NoTextFieldBlanked ==
    /\ Succeeded("update_course_template") =>
           /\ \A f \in TemplateStrFields \ {"course_title"} :
                  last.payload[f] = <<>> => templates[last.id][f] = last.before[f]
           /\ last.payload.course_title = <<>> =>
                  templates[last.id].course_title =
                      IF Truthy(last.before.course_title)
                      THEN last.before.course_title ELSE last.before.default_title
    /\ Succeeded("update_participant") =>
           \A f \in ParticipantStrFields :
               last.payload[f] = <<>> => participants[last.id][f] = last.before[f]
    /\ Succeeded("update_user") =>
           /\ \A f \in UserStrFields \ {"full_name"} :
                  last.payload[f] = <<>> => users[last.id][f] = last.before[f]
           /\ (/\ last.payload.full_name = <<>>
               /\ last.payload.first_name \in {None, <<>>}
               /\ last.payload.surname \in {None, <<>>}) =>
                  users[last.id].full_name = last.before.full_name
           /\ last.payload.password = <<>> =>
                  users[last.id].password_hash = last.before.password_hash

\* C6, amended: "" is treated like an absent field for template name,
\* course_type, provider_type, course_title and user first_name, surname,
\* role, full_name, password: the first three of each keep the stored value,
\* password keeps the hash, course_title stores the title the template showed
\* before (course_title, else default_title), full_name is kept unless a
\* non-empty first_name or surname makes it the joined name.  For template
\* default_trainer, user email and every text field of a participant the ""
\* is stored.
C6_EmptyText ==
    /\ Succeeded("update_course_template") =>
           /\ \A f \in {"name", "course_type", "provider_type"} :
                  last.payload[f] = <<>> => templates[last.id][f] = last.before[f]
           /\ last.payload.course_title = <<>> =>
                  templates[last.id].course_title =
                      IF Truthy(last.before.course_title)
                      THEN last.before.course_title ELSE last.before.default_title
           /\ last.payload.default_trainer = <<>> =>
                  templates[last.id].default_trainer = <<>>
    /\ Succeeded("update_participant") =>
           \A f \in ParticipantStrFields :
               last.payload[f] = <<>> => participants[last.id][f] = <<>>
    /\ Succeeded("update_user") =>
           /\ \A f \in {"first_name", "surname", "role"} :
                  last.payload[f] = <<>> => users[last.id][f] = last.before[f]
           /\ last.payload.password = <<>> =>
                  users[last.id].password_hash = last.before.password_hash
           /\ (/\ last.payload.full_name = <<>>
               /\ last.payload.first_name \in {None, <<>>}
               /\ last.payload.surname \in {None, <<>>}) =>
                  users[last.id].full_name = last.before.full_name
           /\ last.payload.email = <<>> => users[last.id].email = <<>>

C6_Witness ==
    /\ Succeeded("update_participant")
    /\ last.payload.notes = <<>>
    /\ last.before.notes = <<"d">>
    /\ participants[last.id].notes = <<>>

\* C7: a supplied number or flag, 0 and false included, is stored; an absent
\* one leaves the stored value unchanged.
C7_NumbersAndFlags ==
    /\ Succeeded("update_course_template") =>
           \A f \in TemplateNumFields :
               templates[last.id][f] =
                   IF last.payload[f] # NoneN THEN last.payload[f] ELSE last.before[f]
    /\ Succeeded("update_participant") =>
           participants[last.id].joining_sent =
               IF last.payload.joining_sent = N(TRUE) THEN N(1)
               ELSE IF last.payload.joining_sent = N(FALSE) THEN N(0)
               ELSE last.before.joining_sent
    /\ Succeeded("update_user") =>
           users[last.id].must_change_password =
               IF last.payload.must_change_password = N(TRUE) THEN N(1)
               ELSE IF last.payload.must_change_password = N(FALSE) THEN N(0)
               ELSE last.before.must_change_password

C7_Witness ==
    /\ Succeeded("update_participant")
    /\ last.payload.joining_sent = N(FALSE)
    /\ last.before.joining_sent = N(1)
    /\ participants[last.id].joining_sent = N(0)

\* C8: full_name after update_user is the supplied full_name if non-empty;
\* else, if a non-empty first_name or surname is supplied, the merged first
\* name and surname joined by one space and trimmed; else the current one.
C8_FullName ==
    Succeeded("update_user") =>
        LET p == last.payload
            first == IF Truthy(p.first_name) THEN p.first_name
                     ELSE last.before.first_name
            sur == IF Truthy(p.surname) THEN p.surname ELSE last.before.surname
        IN  /\ users[last.id].full_name =
                   IF Truthy(p.full_name) THEN p.full_name
                   ELSE IF Truthy(p.first_name) \/ Truthy(p.surname)
                        THEN strip(first \o <<" ">> \o sur)
                        ELSE last.before.full_name
            /\ (last.before = UserJane /\ p = [NoUserUpdates EXCEPT !.surname = Smith])
                   => users[last.id].full_name = Jane \o <<" ">> \o Smith

C8_Witness ==
    /\ Succeeded("update_user")
    /\ last.before = UserJane
    /\ last.payload = [NoUserUpdates EXCEPT !.surname = Smith]
    /\ users[last.id].full_name = <<"J", "a", "n", "e", " ", "S", "m", "i", "t", "h">>

\* One step: a request whose id resolves to no row in the state it starts
\* from ends 404 and changes no table.
C9_NotFoundStep ==
    /\ (/\ last'.op = "create_course"
        /\ last'.payload.template_id \notin 1..Len(templates))
           => last'.status = 404 /\ Tables' = Tables
    /\ (/\ last'.op = "update_course_template"
        /\ last'.id \notin 1..Len(templates))
           => last'.status = 404 /\ Tables' = Tables
    /\ (/\ last'.op = "update_participant"
        /\ \/ last'.id \notin 1..Len(participants)
           \/ ~participants[last'.id].present)
           => last'.status = 404 /\ Tables' = Tables
    /\ (/\ last'.op = "update_user"
        /\ last'.id \notin 1..Len(users))
           => last'.status = 404 /\ Tables' = Tables

\* C9: every step of a request whose id resolves to no row ends it with 404
\* and leaves all tables as they were.
C9_NotFound == [][C9_NotFoundStep]_vars

C9_Witness ==
    /\ last.op = "update_participant"
    /\ last.status = 404
    /\ last.id \in 1..Len(participants)

\* C10: the entity a successful create or update returns carries, field for
\* field, the values of the row it wrote.
C10_ReturnsWhatWasWritten ==
    /\ Succeeded("create_course") =>
           LET r == last.response
               c == courses[last.id]
           IN  /\ r.id = last.id
               /\ r.title = c.course_title
               /\ r.code = c.course_ref
               /\ r.start_date = c.course_date
               /\ r.end_date = c.course_date
               /\ r.trainer_name = c.trainer
               /\ r.status = c.status
    /\ (Succeeded("create_course_template") \/ Succeeded("update_course_template")) =>
           /\ last.response.id = last.id
           /\ \A f \in TemplateStrFields \cup TemplateNumFields :
                  last.response[f] = templates[last.id][f]
    /\ (Succeeded("create_participant") \/ Succeeded("update_participant")) =>
           /\ last.response.id = last.id
           /\ last.response.course_id = participants[last.id].course_id
           /\ \A f \in ParticipantStrFields :
                  last.response[f] = participants[last.id][f]
           /\ last.response.joining_sent = (participants[last.id].joining_sent = N(1))
    /\ (Succeeded("create_user") \/ Succeeded("update_user")) =>
           /\ last.response.id = last.id
           /\ \A f \in UserStrFields : last.response[f] = users[last.id][f]
           /\ last.response.must_change_password =
                  (users[last.id].must_change_password = N(1))

C10_Witness ==
    /\ Succeeded("update_course_template")
    /\ last.before.course_title = None
    /\ last.before.default_title = <<"s">>
    /\ last.response.course_title = <<"s">>
    /\ templates[last.id].course_title = <<"s">>

\* C13: the course_title a create_course stores is the template's
\* course_title column when that holds a text, else the template's name;
\* default_title is not consulted, also where a read of the template shows
\* default_title as its title.
C13_TitleFromTemplate ==
    Succeeded("create_course") =>
        LET tmpl == last.before
            stored == courses[last.id].course_title
        IN  /\ stored = IF tmpl.course_title # None /\ tmpl.course_title # <<>>
                        THEN tmpl.course_title ELSE tmpl.name
            /\ last.response.title = stored
            /\ (tmpl.course_title = None /\ tmpl.default_title # tmpl.name)
                   => stored # tmpl.default_title

\* A course created from the template whose title is in default_title only:
\* a read of the template shows "s", the course is titled by the name "b".
C13_Witness ==
    /\ Succeeded("create_course")
    /\ last.before = TplLegacy
    /\ row_to_template(1, last.before).course_title = <<"s">>
    /\ courses[last.id].course_title = <<"b">>

C14_CoursesKeptStep ==
    /\ Len(courses') >= Len(courses)
    /\ \A i \in 1..Len(courses) : courses'[i] = courses[i]

\* C14: no operation changes a course row that exists: course_ref,
\* course_title and every other column of it stay as they were written.
C14_CoursesNeverChange == [][C14_CoursesKeptStep]_vars

\* A course was created as A1-2024-001 with the title "d"; then its template
\* was renamed and retitled, and the course row is as it was.
C14_Witness ==
    /\ Succeeded("update_course_template")
    /\ last.before = TplA
    /\ templates[last.id].name = NewText
    /\ Len(courses) = 1
    /\ courses[1].template_id = last.id
    /\ courses[1].course_ref = <<"A", "1", "-", "2", "0", "2", "4", "-", "0", "0", "1">>
    /\ courses[1].course_title = <<"d">>

\* C18: an update that supplies no field returns the entity as a read showed
\* it before, for templates, participants and users, and leaves the user's
\* password_hash as it was; update_user changes password_hash only when the
\* password supplied is a non-empty text.
C18_NoFieldUpdate ==
    /\ (Succeeded("update_course_template") /\ last.payload = NoTemplateUpdates)
           => last.response = row_to_template(last.id, last.before)
    /\ (Succeeded("update_participant") /\ last.payload = NoParticipantUpdates)
           => last.response = row_to_participant(last.id, last.before)
    /\ (Succeeded("update_user") /\ last.payload = NoUserUpdates)
           => /\ last.response = row_to_user(last.id, last.before)
              /\ users[last.id].password_hash = last.before.password_hash
    /\ (Succeeded("update_user")
            /\ users[last.id].password_hash # last.before.password_hash)
           => (last.payload.password # None /\ last.payload.password # <<>>)

\* An update of a user with no field, the stored hash as before.
C18_Witness ==
    /\ Succeeded("update_user")
    /\ last.payload = NoUserUpdates
    /\ last.before = UserJane
    /\ users[last.id].password_hash = hash_password(<<"a">>, "s")

-----------------------------------------------------------------------------
(* SpecCohort: _get_next_cohort_number on course_ref values of any shape    *)

MaxLegacy == 3

Y2024 == <<"2", "0", "2", "4">>

Y2025 == <<"2", "0", "2", "5">>

X_(year, tail) == <<"X", "-">> \o year \o <<"-">> \o tail

\* course_ref values as the allocator writes them and as older data may hold
\* them: NULL, empty, too few segments, a final segment that is no number,
\* one int() reads with blanks, underscores or a sign, a cohort that reads
\* like a year, and a ref naming two years.
LegacyRefs ==
    {None, <<>>, <<"X">>, <<"X", "-">> \o Y2024, Y2024 \o <<"-", "0", "0", "1">>,
     X_(Y2024, <<"0", "0", "1">>), X_(Y2024, <<"0", "0", "3">>),
     X_(Y2024, <<"a", "b", "c">>), X_(Y2024, <<>>), X_(Y2024, <<" ", "7">>),
     X_(Y2024, <<"1", "_", "0">>), X_(Y2024, <<"+", "5">>), X_(Y2024, Y2025),
     X_(Y2025, <<"0", "0", "2">>), X_(Y2025, Y2024 \o <<"-", "9">>)}

CourseWithRef(template_id, course_ref) ==
    [course_ref |-> course_ref, course_date |-> strftime_Ymd(Jan15),
     template_id |-> template_id, course_title |-> <<"d">>, trainer |-> <<>>,
     venue_id |-> NoneN, capacity |-> N(DefaultCapacity), status |-> Planned]

LegacyCourses ==
    {CourseWithRef(1, ref) : ref \in LegacyRefs}
    \cup {CourseWithRef(2, X_(Y2024, <<"0", "0", "8">>))}

InitCohort ==
    /\ templates = <<TplA, TplLegacy>>
    /\ courses \in UNION {[1..n -> LegacyCourses] : n \in 0..MaxLegacy}
    /\ participants = <<>>
    /\ users = <<>>
    /\ venues = TheVenues
    /\ reqs = <<>>
    /\ last = Idle
    /\ opCount = 0

\* A call of _get_next_cohort_number on the stored courses.
CallNextCohort(template_id, year) ==
    LET result == _get_next_cohort_number(courses, template_id, year)
    IN  /\ last' = Done("_get_next_cohort_number", template_id, [year |-> year],
                        IF result.raised THEN 500 ELSE 200, NoRow, result)
        /\ UNCHANGED <<templates, courses, participants, users, venues, reqs,
                       opCount>>

NextCohort == \E template_id \in 1..2, year \in {Y2024, Y2025} :
                  CallNextCohort(template_id, year)

SpecCohort == InitCohort /\ [][NextCohort]_vars

\* The characters after the last "-" of a ref.
FinalSegment(ref) ==
    LET dashes == {i \in 1..Len(ref) : ref[i] = "-"}
    IN  IF dashes = {} THEN ref ELSE SubSeq(ref, Max(dashes) + 1, Len(ref))

\* The cohorts collected for (template_id, year): the final segments, read as
\* integers, of the template's refs that contain "-<year>-".
Collected(template_id, year) ==
    {int(FinalSegment(courses[i].course_ref)).value :
        i \in {j \in 1..Len(courses) :
                 /\ courses[j].template_id = template_id
                 /\ courses[j].course_ref # None
                 /\ contains(courses[j].course_ref, <<"-">> \o year \o <<"-">>)
                 /\ ~int(FinalSegment(courses[j].course_ref)).raised}}

\* C2: the call never raises; it returns max(collected) + 1, or 1 when nothing
\* was collected, a number above every collected cohort; 001, 003 and abc
\* give 4.
C2_NextCohort ==
    last.op = "_get_next_cohort_number" =>
        LET C == Collected(last.id, last.payload.year)
        IN  /\ ~last.response.raised
            /\ last.response.value = IF C = {} THEN 1 ELSE Max(C) + 1
            /\ \A c \in C : last.response.value > c
            /\ (/\ last.id = 1 /\ last.payload.year = Y2024
                /\ Range(courses) = {CourseWithRef(1, X_(Y2024, t)) :
                                        t \in {<<"0", "0", "1">>, <<"0", "0", "3">>,
                                               <<"a", "b", "c">>}})
                   => last.response.value = 4

C2_Witness ==
    /\ last.op = "_get_next_cohort_number"
    /\ last.id = 1
    /\ last.payload.year = Y2024
    /\ Range(courses) = {CourseWithRef(1, X_(Y2024, t)) :
                            t \in {<<"0", "0", "1">>, <<"0", "0", "3">>,
                                   <<"a", "b", "c">>}}
    /\ last.response.value = 4
    /\ ~last.response.raised

-----------------------------------------------------------------------------
(* SpecSeq: courses created one request at a time from an empty courses     *)
(* table, with templates renamed in between                                *)

MaxCourses == 4

Dec31 == [y |-> 2024, m |-> 12, d |-> 31]

Jun01 == [y |-> 2025, m |-> 6, d |-> 1]

SeqCoursePayloads ==
    {[template_id |-> t, course_date |-> d, venue_id |-> NoneN, trainer |-> <<>>,
      capacity |-> NoneN, status |-> Planned] :
         t \in 1..2, d \in {Jan15, Dec31, Jun01}}

\* Renames: the first template to the second one's name, the second to a
\* name with dashes and a year in it.
Renames(template_id) ==
    {[NoTemplateUpdates EXCEPT
        !.name = IF template_id = 1 THEN <<"b">>
                 ELSE <<"c", "-", "2", "0", "2", "4", "-">>]}

InitSeq ==
    /\ templates = <<TplA, TplLegacy>>
    /\ courses = <<>>
    /\ participants = <<PartA>>
    /\ users = <<UserJane>>
    /\ venues = TheVenues
    /\ reqs = <<>>
    /\ last = Idle
    /\ opCount = 0

NextSeq ==
    /\ UNCHANGED opCount
    /\ \/ /\ Len(courses) < MaxCourses
          /\ \E payload \in SeqCoursePayloads : create_course(payload)
       \/ \E id \in 1..2 : \E updates \in Renames(id) :
              update_course_template(id, updates)

SpecSeq == InitSeq /\ [][NextSeq]_vars

\* The 4-digit year of a stored course_date.
Year4(row) == SubSeq(row.course_date, 1, 4)

\* C1: no two course rows of the same template and the same year share a
\* course_ref, renames included.
C1_RefsUniquePerTemplateYear ==
    \A i, j \in 1..Len(courses) :
        (/\ i # j
         /\ courses[i].template_id = courses[j].template_id
         /\ Year4(courses[i]) = Year4(courses[j]))
            => courses[i].course_ref # courses[j].course_ref

\* Two courses of one template and year, created under different names.
C1_Witness ==
    \E i, j \in 1..Len(courses) :
        /\ i < j
        /\ courses[i].template_id = courses[j].template_id
        /\ Year4(courses[i]) = Year4(courses[j])
        /\ courses[i].course_ref = <<"A", "1", "-", "2", "0", "2", "4", "-", "0", "0", "1">>
        /\ courses[j].course_ref = <<"B", "-", "2", "0", "2", "4", "-", "0", "0", "2">>

\* C17: starting with no courses and with requests that do not overlap, the
\* cohorts of the refs of one template and one year are 1, 2, ..., N in the
\* order the rows were created, whatever was created for other templates or
\* years in between; no cohort is below 1.
C17_CohortsInOrder ==
    \A t \in 1..Len(templates), y \in {Y2024, Y2025} :
        LET rows == {i \in 1..Len(courses) :
                        courses[i].template_id = t /\ Year4(courses[i]) = y}
        IN  \A i \in rows :
                LET cohort == FinalSegment(courses[i].course_ref)
                IN  /\ \A k \in 1..Len(cohort) : cohort[k] \in DigitSet
                    /\ digitsValue(cohort) = Cardinality({j \in rows : j <= i})
                    /\ digitsValue(cohort) >= 1

\* Three courses of template 1 in 2024, with a course of another year created
\* between the first and the last of them.
C17_Witness ==
    /\ Len(courses) = 4
    /\ Cardinality({i \in 1..4 : /\ courses[i].template_id = 1
                                 /\ Year4(courses[i]) = Y2024}) = 3
    /\ courses[1].template_id = 1 /\ Year4(courses[1]) = Y2024
    /\ courses[4].template_id = 1 /\ Year4(courses[4]) = Y2024
    /\ FinalSegment(courses[4].course_ref) = <<"0", "0", "3">>

-----------------------------------------------------------------------------
(* SpecConc: create_course requests that overlap.  Each request runs its    *)
(* statements in order on its own connection; the INSERT and its commit are *)
(* one step, the SELECTs before and after it are steps of their own.        *)

MaxRequests == 2

MaxConcCourses == 2

IdleRequest ==
    [pc |-> "idle", payload |-> NoRow, tmpl |-> NoRow, next_cohort |-> 0,
     new_id |-> 0, status |-> 0, response |-> NoResponse]

ConcCoursePayloads ==
    {[template_id |-> t, course_date |-> d, venue_id |-> NoneN, trainer |-> <<>>,
      capacity |-> NoneN, status |-> Planned] : t \in 1..2, d \in {Jan15, Jun01}}

InFlight == {r \in 1..MaxRequests : reqs[r].pc \in {"allocate", "insert"}}

\* create_course up to the template lookup: 404 when no row comes back.
create_course_lookup(r, payload) ==
    /\ reqs[r].pc \in {"idle", "done"}
    /\ Len(courses) + Cardinality(InFlight) < MaxConcCourses
    /\ IF ~TemplateFound(templates, payload.template_id)
       THEN /\ reqs' = [reqs EXCEPT ![r] =
                          [IdleRequest EXCEPT !.pc = "done", !.payload = payload,
                                              !.status = 404]]
            /\ last' = Done("create_course", 0, payload, 404, NoRow, NoResponse)
       ELSE /\ reqs' = [reqs EXCEPT ![r] =
                          [IdleRequest EXCEPT !.pc = "allocate", !.payload = payload,
                                              !.tmpl = templates[payload.template_id]]]
            /\ UNCHANGED last
    /\ UNCHANGED <<templates, courses, participants, users, venues, opCount>>

\* The SELECT of the existing refs and the cohort number computed from it.
create_course_allocate(r) ==
    /\ reqs[r].pc = "allocate"
    /\ LET next_cohort == _get_next_cohort_number(
                              courses, reqs[r].payload.template_id,
                              strftime_Y(reqs[r].payload.course_date))
       IN  IF next_cohort.raised
           THEN /\ reqs' = [reqs EXCEPT ![r].pc = "done", ![r].status = 500]
                /\ last' = Done("create_course", 0, reqs[r].payload, 500,
                                reqs[r].tmpl, NoResponse)
           ELSE /\ reqs' = [reqs EXCEPT ![r].pc = "insert",
                                        ![r].next_cohort = next_cohort.value]
                /\ UNCHANGED last
    /\ UNCHANGED <<templates, courses, participants, users, venues, opCount>>

create_course_insert_Unique(r) ==
    /\ reqs[r].pc = "insert"
    /\ LET row == CourseRow(reqs[r].tmpl, reqs[r].payload, reqs[r].next_cohort)
       IN  IF \E i \in 1..Len(courses) : courses[i].course_ref = row.course_ref
           THEN /\ reqs' = [reqs EXCEPT ![r].pc = "done", ![r].status = 409]
                /\ UNCHANGED courses
           ELSE /\ courses' = Append(courses, row)
                /\ reqs' = [reqs EXCEPT ![r].pc = "reread",
                                        ![r].new_id = Len(courses) + 1]
    /\ UNCHANGED <<templates, participants, users, venues, last, opCount>>

\* The INSERT and conn.commit().
create_course_insert(r) ==
    /\ reqs[r].pc = "insert"
    /\ courses' = Append(courses, CourseRow(reqs[r].tmpl, reqs[r].payload,
                                            reqs[r].next_cohort))
    /\ reqs' = [reqs EXCEPT ![r].pc = "reread", ![r].new_id = Len(courses) + 1]
    /\ UNCHANGED <<templates, participants, users, venues, last, opCount>>

\* The confirming SELECT and the response.
create_course_reread(r) ==
    /\ reqs[r].pc = "reread"
    /\ IF reqs[r].new_id \notin 1..Len(courses)
       THEN /\ reqs' = [reqs EXCEPT ![r].pc = "done", ![r].status = 500]
            /\ last' = Done("create_course", reqs[r].new_id, reqs[r].payload, 500,
                            reqs[r].tmpl, NoResponse)
       ELSE LET response == _row_to_course(courses, venues, reqs[r].new_id)
            IN  /\ reqs' = [reqs EXCEPT ![r].pc = "done", ![r].status = 200,
                                        ![r].response = response]
                /\ last' = Done("create_course", reqs[r].new_id, reqs[r].payload,
                                200, reqs[r].tmpl, response)
    /\ UNCHANGED <<templates, courses, participants, users, venues, opCount>>

InitConc ==
    /\ templates = <<TplA>>
    /\ courses = <<>>
    /\ participants = <<PartA>>
    /\ users = <<UserJane>>
    /\ venues = TheVenues
    /\ reqs = [r \in 1..MaxRequests |-> IdleRequest]
    /\ last = Idle
    /\ opCount = 0

\* update_course_template runs between the steps of the create_course requests.
rename_template(template_id) ==
    /\ \E updates \in Renames(template_id) :
           update_course_template(template_id, updates)
    /\ UNCHANGED opCount

NextConc ==
    \/ \E r \in 1..MaxRequests, payload \in ConcCoursePayloads :
           create_course_lookup(r, payload)
    \/ \E r \in 1..MaxRequests : create_course_allocate(r)
    \/ \E r \in 1..MaxRequests : create_course_insert(r)
    \/ \E r \in 1..MaxRequests : create_course_reread(r)
    \/ rename_template(1)

SpecConc == InitConc /\ [][NextConc]_vars

\* C3: a request that found its template always inserts the ref built from
\* the cohort number it read, whatever rows were committed since, and ends
\* with 200: no step detects or rejects a duplicate.
C3_DuplicateNotRejected ==
    \A r \in 1..MaxRequests :
        LET q == reqs[r]
        IN  /\ (q.pc \in {"reread", "done"} /\ q.tmpl # NoRow) =>
                   /\ q.new_id \in 1..Len(courses)
                   /\ courses[q.new_id].template_id = q.payload.template_id
                   /\ courses[q.new_id].course_ref =
                          _get_template_shortname(q.tmpl.name) \o <<"-">>
                              \o decimal(q.payload.course_date.y) \o <<"-">>
                              \o format03d(q.next_cohort)
                   /\ \A r2 \in 1..MaxRequests :
                          (r2 # r /\ reqs[r2].pc \in {"reread", "done"}
                                  /\ reqs[r2].tmpl # NoRow)
                              => reqs[r2].new_id # q.new_id
            /\ (q.pc = "done" /\ q.tmpl # NoRow) => q.status = 200

\* Both requests read the same cohort number for one template and year, both
\* committed, and two rows carry the same course_ref.
C3_Witness ==
    /\ reqs[1].pc = "done" /\ reqs[1].status = 200
    /\ reqs[2].pc = "done" /\ reqs[2].status = 200
    /\ reqs[1].next_cohort = reqs[2].next_cohort
    /\ reqs[1].new_id # reqs[2].new_id
    /\ courses[reqs[1].new_id].template_id = courses[reqs[2].new_id].template_id
    /\ Year4(courses[reqs[1].new_id]) = Year4(courses[reqs[2].new_id])
    /\ courses[reqs[1].new_id].course_ref = courses[reqs[2].new_id].course_ref

-----------------------------------------------------------------------------
(* SpecReread: create_participant and update_participant requests that     *)
(* overlap with each other and with delete_participant.  Each request runs  *)
(* on its own connection: a SELECT is a step, a write with its commit is a  *)
(* step.  A slot of reqs carries one request from its start to its return.  *)

IdleParticipantRequest ==
    [pc |-> "idle", op |-> "none", id |-> 0, payload |-> NoRow, current |-> NoRow,
     rowcount |-> 0, status |-> 0, response |-> NoResponse]

RereadUpdates ==
    {NoParticipantUpdates, [NoParticipantUpdates EXCEPT !.notes = NewText]}

RereadBodies ==
    {[first_name |-> Jane, surname |-> Smith, contact_number |-> None,
      email |-> None, payment_status |-> None, notes |-> None,
      joining_sent |-> FALSE]}

\* The id an INSERT gets.  The schema is not part of the source: the id is
\* above every id ever used (AUTOINCREMENT) or above every id now in the
\* table (a plain INTEGER PRIMARY KEY).
NewParticipantIds(parts) ==
    {Len(parts) + 1,
     Max({0} \cup {i \in 1..Len(parts) : parts[i].present}) + 1}

\* create_participant up to the commit of its INSERT.
create_participant_insert(r, course_id, payload) ==
    /\ reqs[r].pc = "idle"
    /\ \E new_id \in NewParticipantIds(participants) :
           /\ participants' =
                  IF new_id \in 1..Len(participants)
                  THEN [participants EXCEPT ![new_id] = ParticipantRow(course_id, payload)]
                  ELSE Append(participants, ParticipantRow(course_id, payload))
           /\ reqs' = [reqs EXCEPT ![r] =
                         [IdleParticipantRequest EXCEPT
                            !.pc = "reread", !.op = "create_participant",
                            !.id = new_id, !.payload = payload, !.rowcount = 1]]
    /\ UNCHANGED <<templates, courses, users, venues, last, opCount>>

\* update_participant up to its first SELECT: 404 when no row comes back.
update_participant_select(r, participant_id, payload) ==
    /\ reqs[r].pc = "idle"
    /\ IF ~ParticipantFound(participants, participant_id)
       THEN /\ reqs' = [reqs EXCEPT ![r] =
                          [IdleParticipantRequest EXCEPT
                             !.pc = "done", !.op = "update_participant",
                             !.id = participant_id, !.payload = payload,
                             !.status = 404]]
            /\ last' = Done("update_participant", participant_id, payload, 404,
                            NoRow, NoResponse)
       ELSE /\ reqs' = [reqs EXCEPT ![r] =
                          [IdleParticipantRequest EXCEPT
                             !.pc = "update", !.op = "update_participant",
                             !.id = participant_id, !.payload = payload,
                             !.current = participants[participant_id]]]
            /\ UNCHANGED last
    /\ UNCHANGED <<templates, courses, participants, users, venues, opCount>>

\* The UPDATE ... WHERE id = ? and its commit: the values are merged from the
\* row as the request read it; a row deleted since is not written.
update_participant_update(r) ==
    /\ reqs[r].pc = "update"
    /\ IF ParticipantFound(participants, reqs[r].id)
       THEN /\ participants' =
                   [participants EXCEPT
                      ![reqs[r].id] = ParticipantMerge(reqs[r].current, reqs[r].payload)]
            /\ reqs' = [reqs EXCEPT ![r].pc = "reread", ![r].rowcount = 1]
       ELSE /\ UNCHANGED participants
            /\ reqs' = [reqs EXCEPT ![r].pc = "reread", ![r].rowcount = 0]
    /\ UNCHANGED <<templates, courses, users, venues, last, opCount>>

participant_reread_NotFound(r) ==
    /\ reqs[r].pc = "reread"
    /\ IF ~ParticipantFound(participants, reqs[r].id)
       THEN /\ reqs' = [reqs EXCEPT ![r].pc = "done", ![r].status = 404]
            /\ last' = Done(reqs[r].op, reqs[r].id, reqs[r].payload, 404,
                            reqs[r].current, NoResponse)
       ELSE LET response == row_to_participant(reqs[r].id, participants[reqs[r].id])
            IN  /\ reqs' = [reqs EXCEPT ![r].pc = "done", ![r].status = 200,
                                        ![r].response = response]
                /\ last' = Done(reqs[r].op, reqs[r].id, reqs[r].payload, 200,
                                reqs[r].current, response)
    /\ UNCHANGED <<templates, courses, participants, users, venues, opCount>>

\* The SELECT after the commit, the same in create_participant and
\* update_participant: 500 when no row comes back, else the row as read.
participant_reread(r) ==
    /\ reqs[r].pc = "reread"
    /\ IF ~ParticipantFound(participants, reqs[r].id)
       THEN /\ reqs' = [reqs EXCEPT ![r].pc = "done", ![r].status = 500]
            /\ last' = Done(reqs[r].op, reqs[r].id, reqs[r].payload, 500,
                            reqs[r].current, NoResponse)
       ELSE LET response == row_to_participant(reqs[r].id, participants[reqs[r].id])
            IN  /\ reqs' = [reqs EXCEPT ![r].pc = "done", ![r].status = 200,
                                        ![r].response = response]
                /\ last' = Done(reqs[r].op, reqs[r].id, reqs[r].payload, 200,
                                reqs[r].current, response)
    /\ UNCHANGED <<templates, courses, participants, users, venues, opCount>>

\* delete_participant of a stored id between the steps of the other requests.
delete_between(participant_id) ==
    /\ ParticipantFound(participants, participant_id)
    /\ delete_participant(participant_id)
    /\ UNCHANGED opCount

InitReread ==
    /\ templates = <<TplA>>
    /\ courses = <<>>
    /\ participants = <<PartA>>
    /\ users = <<UserJane>>
    /\ venues = TheVenues
    /\ reqs = [r \in 1..MaxRequests |-> IdleParticipantRequest]
    /\ last = Idle
    /\ opCount = 0

NextReread ==
    \/ \E r \in 1..MaxRequests, payload \in RereadBodies :
           create_participant_insert(r, 1, payload)
    \/ \E r \in 1..MaxRequests, id \in 1..(Len(participants) + 1),
          payload \in RereadUpdates : update_participant_select(r, id, payload)
    \/ \E r \in 1..MaxRequests : update_participant_update(r)
    \/ \E r \in 1..MaxRequests : participant_reread(r)
    \/ \E id \in 1..Len(participants) : delete_between(id)

SpecReread == InitReread /\ [][NextReread]_vars

C15_RereadStep ==
    \A r \in 1..MaxRequests :
        /\ (reqs[r].pc = "reread" /\ reqs'[r].pc # "reread") =>
               LET id == reqs[r].id
                   gone == \/ id \notin 1..Len(participants)
                           \/ ~participants[id].present
               IN  /\ reqs'[r].pc = "done"
                   /\ participants' = participants
                   /\ gone => /\ reqs'[r].status = 500
                              /\ reqs'[r].response = NoResponse
                              /\ last'.status = 500
                   /\ ~gone => reqs'[r].status = 200
        /\ reqs[r].pc = "done" => reqs'[r] = reqs[r]

\* C15: a create or update whose row is gone at the re-read after its commit
\* ends with 500, not with 200 and not with 404; it writes nothing more and
\* takes no further step.
C15_GoneAtReread == [][C15_RereadStep]_vars

\* An update_participant wrote its row, the row was deleted before the
\* re-read, and the request ended with 500.
C15_Witness ==
    \E r \in 1..MaxRequests :
        /\ reqs[r].op = "update_participant"
        /\ reqs[r].pc = "done"
        /\ reqs[r].rowcount = 1
        /\ reqs[r].status = 500
        /\ ~ParticipantFound(participants, reqs[r].id)
        /\ last.op = "update_participant" /\ last.status = 500

-----------------------------------------------------------------------------
(* SpecLegacy: create_course, one request at a time, on a courses table     *)
(* that already holds refs of older data, among them cohorts of 999 and of  *)
(* a value that reads like a year                                          *)

MaxStored == 2

MaxCreated == 2

StoredCourses ==
    {CourseWithRef(1, X_(Y2024, tail)) :
        tail \in {<<"0", "0", "1">>, <<"9", "9", "9">>, Y2024, <<"a", "b", "c">>}}
    \cup {CourseWithRef(1, X_(Y2025, <<"0", "0", "2">>)),
          CourseWithRef(2, X_(Y2024, <<"0", "0", "8">>))}

LegacyCoursePayloads ==
    {[template_id |-> t, course_date |-> d, venue_id |-> NoneN, trainer |-> <<>>,
      capacity |-> NoneN, status |-> Planned] : t \in 1..2, d \in {Jan15, Jun01}}

InitLegacy ==
    /\ templates = <<TplA, TplLegacy>>
    /\ courses \in UNION {[1..n -> StoredCourses] : n \in 0..MaxStored}
    /\ participants = <<>>
    /\ users = <<>>
    /\ venues = TheVenues
    /\ reqs = <<>>
    /\ last = Idle
    /\ opCount = 0

NextLegacy ==
    /\ opCount < MaxCreated
    /\ opCount' = opCount + 1
    /\ \E payload \in LegacyCoursePayloads : create_course(payload)

SpecLegacy == InitLegacy /\ [][NextLegacy]_vars

\* A step that adds one course row, and the row it adds.
CourseCreated == Len(courses') = Len(courses) + 1

\* The cohort of (template_id, year) on the rows before the step.
CohortBefore(template_id, year) ==
    LET C == Collected(template_id, year)
    IN  IF C = {} THEN 1 ELSE Max(C) + 1

C11_RefStep ==
    CourseCreated =>
        LET row == courses'[Len(courses')]
            year == Year4(row)
            n == CohortBefore(row.template_id, year)
            cohort == FinalSegment(row.course_ref)
        IN  /\ row.course_ref =
                   _get_template_shortname(templates[row.template_id].name)
                       \o <<"-">> \o year \o <<"-">> \o cohort
            /\ \A i \in 1..Len(cohort) : cohort[i] \in DigitSet
            /\ digitsValue(cohort) = n
            /\ n < 1000 => Len(cohort) = 3
            /\ n >= 1000 => cohort = decimal(n)
            /\ Collected(row.template_id, year) = {} => cohort = <<"0", "0", "1">>

\* C11: the ref a create_course writes is <shortname>-<year>-<cohort>; the
\* cohort is in decimal, has exactly three digits below 1000 (zero-padded),
\* carries all its digits from 1000 on, and is 001 for the first instance of
\* a template in a year.
C11_RefFormat == [][C11_RefStep]_vars

\* After a stored cohort of 999 the allocator wrote 1000, and then 1001.
C11_Witness ==
    /\ last.op = "create_course" /\ last.status = 200
    /\ \E i \in 1..Len(courses) :
           courses[i].course_ref = <<"A", "1", "-">> \o Y2024 \o <<"-", "1", "0", "0", "0">>
    /\ courses[last.id].course_ref =
           <<"A", "1", "-">> \o Y2024 \o <<"-", "1", "0", "0", "1">>

\* The years whose counter is compared across a step: the two years of the
\* payloads and the years that the cohorts written here read like.
CheckedYears == {decimal(y) : y \in {1000, 1001, 2024, 2025, 2026}}

C16_OtherPairsStep ==
    CourseCreated =>
        LET row == courses'[Len(courses')]
        IN  \A t \in 1..Len(templates), y \in CheckedYears :
                LET before == _get_next_cohort_number(courses, t, y)
                    after == _get_next_cohort_number(courses', t, y)
                IN  IF t = row.template_id /\ y = Year4(row)
                    THEN after.value = before.value + 1
                    ELSE after = before

\* C16: a create_course for template T and year Y changes the next cohort
\* number of (T, Y) only; for every other template or year the number is the
\* same before and after, also when the new ref's cohort reads like a year.
C16_CountersIndependent == [][C16_OtherPairsStep]_vars

\* A course of template 1 and year 2024 got the cohort 2025 while template 1
\* has a ref of the year 2025.
C16_Witness ==
    /\ last.op = "create_course" /\ last.status = 200
    /\ courses[last.id].course_ref = <<"A", "1", "-">> \o Y2024 \o <<"-">> \o Y2025
    /\ \E i \in 1..Len(courses) :
           courses[i] = CourseWithRef(1, X_(Y2025, <<"0", "0", "2">>))

-----------------------------------------------------------------------------
(* SpecShortname: _get_template_shortname applied to template names        *)

MaxNameLen == 3

\* A letter of each case, a digit, and characters that are neither: blank,
\* hyphen, en dash, full stop.
NameChars == {"a", "B", "3", " ", "-", "EN DASH", "."}

FREC3 ==
    <<"F", "R", "E", "C", " ", "3", " ", "EN DASH", " ",
      "Q", "u", "a", "l", "s", "a", "f", "e">>

TemplateNames ==
    UNION {[1..n -> NameChars] : n \in 0..MaxNameLen} \cup {FREC3}

InitShortname ==
    /\ templates \in {<<[TplA EXCEPT !.name = name]>> : name \in TemplateNames}
    /\ courses = <<>>
    /\ participants = <<>>
    /\ users = <<>>
    /\ venues = TheVenues
    /\ reqs = <<>>
    /\ last = Idle
    /\ opCount = 0

\* A call of _get_template_shortname on a stored template's name.
CallShortname(template_id) ==
    /\ last = Idle
    /\ last' = Done("_get_template_shortname", template_id,
                    [template_name |-> templates[template_id].name], 200, NoRow,
                    _get_template_shortname(templates[template_id].name))
    /\ UNCHANGED <<templates, courses, participants, users, venues, reqs, opCount>>

NextShortname == CallShortname(1)

SpecShortname == InitShortname /\ [][NextShortname]_vars

\* C12: the short name is the letters and digits of the name, in their
\* order, each upper-cased, and nothing else; it holds no "-".
C12_Shortname ==
    last.op = "_get_template_shortname" =>
        LET name == last.payload.template_name
            result == last.response
            kept == {i \in 1..Len(name) : name[i] \in LetterSet \cup DigitSet}
            kth(k) == CHOOSE i \in kept : Cardinality({j \in kept : j < i}) = k - 1
        IN  /\ Len(result) = Cardinality(kept)
            /\ \A k \in 1..Len(result) :
                   /\ result[k] = upperChar(name[kth(k)])
                   /\ result[k] \notin Range(LowerChars)
            /\ "-" \notin Range(result)
            /\ name = FREC3 =>
                   result = <<"F", "R", "E", "C", "3",
                              "Q", "U", "A", "L", "S", "A", "F", "E">>

\* A name with a hyphen between a lower-case letter and a digit.
C12_Witness ==
    /\ last.op = "_get_template_shortname"
    /\ last.payload.template_name = <<"a", "-", "3">>
    /\ last.response = <<"A", "3">>

====
